---- MODULE Spec2Model ----
(***************************************************************************)
(* Model of larndsim/quenching.py: the CUDA kernel quench(tracks, mode).   *)
(* One kernel thread per grid index; a thread whose index is inside the    *)
(* tracks array evaluates the recombination model selected by mode for its *)
(* segment and stores n_electrons and n_photons in place.                  *)
(*                                                                         *)
(* Floating point values are modelled as exact rationals extended with the *)
(* IEEE special values NaN, +inf and -inf.  log and exp, which are not     *)
(* rational, are modelled by rational approximations that keep their       *)
(* sign, zero and special-value behaviour (see FLog, FExp).                *)
(***************************************************************************)
EXTENDS Integers, Sequences, FiniteSets, TLC

(***************************************************************************)
(* Bounds of the model.                                                    *)
(***************************************************************************)
NTracks == 2

(***************************************************************************)
(* Extended rationals: [k, n, d] with k the kind, n/d in lowest terms.     *)
(***************************************************************************)
RECURSIVE GCD(_, _)
GCD(a, b) == IF b = 0 THEN a ELSE GCD(b, a % b)

Abs(n) == IF n < 0 THEN -n ELSE n

Sgn(n) == IF n < 0 THEN -1 ELSE IF n > 0 THEN 1 ELSE 0

Fin(n, d) ==
    LET s == IF d < 0 THEN -1 ELSE 1
        g == GCD(Abs(n), Abs(d))
    IN  [k |-> "fin", n |-> (s * n) \div g, d |-> Abs(d) \div g]

NaN == [k |-> "nan", n |-> 0, d |-> 1]

PInf == [k |-> "inf", n |-> 1, d |-> 1]

NInf == [k |-> "inf", n |-> -1, d |-> 1]

Zero == Fin(0, 1)

One == Fin(1, 1)

Inf(s) == IF s < 0 THEN NInf ELSE PInf

FSign(a) == Sgn(a.n)

FNeg(a) == [a EXCEPT !.n = -a.n]

FAbs(a) == [a EXCEPT !.n = Abs(a.n)]

\* a + b in IEEE arithmetic: inf + (-inf) is NaN
FAdd(a, b) ==
    IF a.k = "nan" \/ b.k = "nan" THEN NaN
    ELSE IF a.k = "inf" /\ b.k = "inf" THEN (IF a.n = b.n THEN a ELSE NaN)
    ELSE IF a.k = "inf" THEN a
    ELSE IF b.k = "inf" THEN b
    ELSE LET g == GCD(a.d, b.d)
         IN  Fin(a.n * (b.d \div g) + b.n * (a.d \div g), (a.d \div g) * b.d)

FSub(a, b) == FAdd(a, FNeg(b))

\* a * b in IEEE arithmetic: 0 * inf is NaN
FMul(a, b) ==
    IF a.k = "nan" \/ b.k = "nan" THEN NaN
    ELSE IF a.k = "inf" \/ b.k = "inf"
         THEN (IF FSign(a) * FSign(b) = 0 THEN NaN ELSE Inf(FSign(a) * FSign(b)))
    ELSE LET g1 == GCD(Abs(a.n), b.d)
             g2 == GCD(Abs(b.n), a.d)
         IN  Fin((a.n \div g1) * (b.n \div g2), (a.d \div g2) * (b.d \div g1))

\* a / b in IEEE arithmetic: x/0 is +-inf, 0/0 and inf/inf are NaN
FDiv(a, b) ==
    IF a.k = "nan" \/ b.k = "nan" THEN NaN
    ELSE IF a.k = "inf" THEN (IF b.k = "inf" THEN NaN
                              ELSE Inf(a.n * (IF b.n < 0 THEN -1 ELSE 1)))
    ELSE IF b.k = "inf" THEN Zero
    ELSE IF b.n = 0 THEN (IF a.n = 0 THEN NaN ELSE Inf(a.n))
    ELSE FMul(a, Fin(b.d, b.n))

\* a < b; every comparison with NaN is false
FLt(a, b) ==
    IF a.k = "nan" \/ b.k = "nan" THEN FALSE
    ELSE IF a.k = "inf" THEN a.n < 0 /\ ~(b.k = "inf" /\ b.n < 0)
    ELSE IF b.k = "inf" THEN b.n > 0
    ELSE a.n * b.d < b.n * a.d

FLe(a, b) ==
    IF a.k = "nan" \/ b.k = "nan" THEN FALSE ELSE ~FLt(b, a)

\* isnan that never reports a NaN
NeverNan(a) == FALSE

isnan(a) == a.k = "nan"

\* Python's max(0, v): the second argument replaces the first only when it
\* compares greater, so max(0, NaN) is 0
Max0(v) == IF FLt(Zero, v) THEN v ELSE Zero

FMin(a, b) == IF FLt(b, a) THEN b ELSE a

FMax(a, b) == IF FLt(a, b) THEN b ELSE a

\* math.log: NaN below 0, -inf at 0, and for positive x the first term of
\* the area-tangent series ln x = 2 artanh((x-1)/(x+1)), which has the sign
\* and the zero of ln x
FLog(a) ==
    IF a.k = "nan" THEN NaN
    ELSE IF a.k = "inf" THEN (IF a.n > 0 THEN PInf ELSE NaN)
    ELSE IF a.n < 0 THEN NaN
    ELSE IF a.n = 0 THEN NInf
    ELSE FDiv(FMul(Fin(2, 1), FSub(a, One)), FAdd(a, One))

\* exp: 0 at -inf, +inf at +inf, and for finite t the second-order Taylor
\* polynomial 1 + t + t^2/2, which is positive everywhere
FExp(a) ==
    IF a.k = "nan" THEN NaN
    ELSE IF a.k = "inf" THEN (IF a.n > 0 THEN PInf ELSE Zero)
    ELSE FAdd(One, FAdd(a, FDiv(FMul(a, a), Fin(2, 1))))

(***************************************************************************)
(* Configuration read by the kernel: the recombination mode values, the    *)
(* physical constants of consts.physics, consts.detector and consts.light, *)
(* and the plane-boundary table TPC_BORDERS.                               *)
(***************************************************************************)
BOX == 1

BIRKS == 2

DATA == 3

DEFAULT_PLANE_INDEX == 48879

\* a plane entry is <<<<x_min, x_max>>, <<y_min, y_max>>, <<z_anode, z_far>>>>
PlaneNear == << <<Fin(0, 1), Fin(10, 1)>>, <<Fin(0, 1), Fin(10, 1)>>, <<Fin(0, 1), Fin(5, 1)>> >>

PlaneFar == << <<Fin(0, 1), Fin(10, 1)>>, <<Fin(0, 1), Fin(10, 1)>>, <<Fin(8, 1), Fin(4, 1)>> >>

PlaneSide == << <<Fin(12, 1), Fin(14, 1)>>, <<Fin(0, 1), Fin(10, 1)>>, <<Fin(0, 1), Fin(5, 1)>> >>

BaseConfig ==
    [E_FIELD |-> Fin(1, 2), LAR_DENSITY |-> Fin(7, 5),
     W_ION |-> Fin(1, 40), W_PH |-> Fin(1, 50), SCINT_PRESCALE |-> One,
     BOX_ALPHA |-> Fin(93, 100), BOX_BETA |-> Fin(207, 1000),
     BIRKS_Ab |-> Fin(4, 5), BIRKS_kb |-> Fin(243, 5000),
     V_DRIFT |-> Fin(4, 25), ELECTRON_LIFETIME |-> Fin(2200, 1),
     TPC_BORDERS |-> <<PlaneNear, PlaneFar, PlaneSide>>]

\* the configurations a batch is checked under: the reference constants, and
\* a Box model with BOX_ALPHA = 1, a prescaled light yield and the plane table
\* in the opposite order
Configs ==
    { BaseConfig,
      [BaseConfig EXCEPT !.BOX_ALPHA = One, !.SCINT_PRESCALE = Fin(1, 2),
                         !.TPC_BORDERS = <<PlaneSide, PlaneFar, PlaneNear>>] }

\* mode is an int argument: the three recognised values and one other
Modes == {0, BOX, BIRKS, DATA}

\* numba compiles a kernel with the IEEE ("numpy") error model, and with
\* Python's, where a division by zero raises, when debugging is switched on
ErrorModels == {"numpy", "python"}

(***************************************************************************)
(* The track segments a caller may pass in.                                *)
(***************************************************************************)
Segment(dEdx, dE, x, y, z, pp) ==
    [dEdx |-> dEdx, dE |-> dE, x |-> x, y |-> y, z |-> z, pixel_plane |-> pp,
     n_electrons |-> Fin(-7, 1), n_photons |-> Fin(-9, 1)]

SegmentInputs ==
    { \* inside PlaneNear and PlaneFar (4 <= z <= 5), energetic
      Segment(Fin(2, 1), Fin(10, 1), Fin(5, 1), Fin(5, 1), Fin(9, 2), DEFAULT_PLANE_INDEX),
      \* no energy loss per length but deposited energy, on the padded edge
      Segment(Zero, Fin(10, 1), Fin(5, 1), Fin(5, 1), Fin(-1, 50), 1),
      \* small dEdx: BOX_ALPHA + csi below 1 for the reference constants
      Segment(Fin(1, 10), Fin(1, 1), Fin(5, 1), Fin(5, 1), Fin(7, 1), 0),
      \* a negative dEdx, just outside the padding of every plane
      Segment(Fin(-1, 10), Fin(1, 1), Fin(5, 1), Fin(5, 1), Fin(-1, 25), DEFAULT_PLANE_INDEX),
      \* dEdx = 0/0 from a zero-length segment without energy
      Segment(NaN, Zero, Fin(13, 1), Fin(5, 1), Fin(1, 1), DEFAULT_PLANE_INDEX) }

(***************************************************************************)
(* The computations of the kernel, one operator per expression.            *)
(***************************************************************************)
\* the 2e-2 padding of the plane boxes
Tolerance == Fin(2, 100)

\* every thread working on the first element
SlotFirst(itrk) == 1

\* the array element thread itrk works on (sequences start at 1)
Slot(itrk) == itrk + 1

\* if itrk < tracks.shape[0]
InRange(itrk, trks) == itrk < Len(trks)

\* the chain without its else branch: any other mode taken as BIRKS
ModeBranchLax(m) ==
    IF m = BOX THEN "BOX" ELSE IF m = DATA THEN "DATA" ELSE "BIRKS"

\* the if/elif/else chain over mode
ModeBranch(m) ==
    IF m = BOX THEN "BOX"
    ELSE IF m = BIRKS THEN "BIRKS"
    ELSE IF m = DATA THEN "DATA"
    ELSE "INVALID"

\* csi = BOX_BETA * dEdx / (E_FIELD * LAR_DENSITY)
Csi(c, dEdx) == FDiv(FMul(c.BOX_BETA, dEdx), FMul(c.E_FIELD, c.LAR_DENSITY))

\* the Box formula without the max(0, ...) floor
RecombBoxNoFloor(c, dEdx) ==
    FDiv(FLog(FAdd(c.BOX_ALPHA, Csi(c, dEdx))), Csi(c, dEdx))

\* recomb = max(0, log(BOX_ALPHA + csi)/csi)
RecombBox(c, dEdx) ==
    Max0(FDiv(FLog(FAdd(c.BOX_ALPHA, Csi(c, dEdx))), Csi(c, dEdx)))

\* the Birks formula with the sign of the dEdx term flipped
RecombBirksMinus(c, dEdx) ==
    FDiv(c.BIRKS_Ab,
         FSub(One, FDiv(FMul(c.BIRKS_kb, dEdx), FMul(c.E_FIELD, c.LAR_DENSITY))))

\* recomb = BIRKS_Ab / (1 + BIRKS_kb * dEdx / (E_FIELD * LAR_DENSITY))
RecombBirks(c, dEdx) ==
    FDiv(c.BIRKS_Ab,
         FAdd(One, FDiv(FMul(c.BIRKS_kb, dEdx), FMul(c.E_FIELD, c.LAR_DENSITY))))

\* the condition of the plane loop: the segment is inside the padded box
InPlane(plane, t) ==
    /\ FLe(FSub(plane[1][1], Tolerance), t.x) /\ FLe(t.x, FAdd(plane[1][2], Tolerance))
    /\ FLe(FSub(plane[2][1], Tolerance), t.y) /\ FLe(t.y, FAdd(plane[2][2], Tolerance))
    /\ FLe(FMin(FSub(plane[3][2], Tolerance), FSub(plane[3][1], Tolerance)), t.z)
    /\ FLe(t.z, FMax(FAdd(plane[3][2], Tolerance), FAdd(plane[3][1], Tolerance)))

\* for ip, plane in enumerate(TPC_BORDERS): ... pixel_plane = ip; break
\* (ip counts from 0, the sequence from 1)
RECURSIVE ScanPlanes(_, _, _)
ScanPlanes(table, t, k) ==
    IF k > Len(table) THEN DEFAULT_PLANE_INDEX
    ELSE IF InPlane(table[k], t) THEN k - 1
    ELSE ScanPlanes(table, t, k + 1)

\* the plane loop without its break: the last matching plane wins
RECURSIVE ScanAllPlanes(_, _, _, _)
ScanAllPlanes(table, t, k, found) ==
    IF k > Len(table) THEN found
    ELSE ScanAllPlanes(table, t, k + 1, IF InPlane(table[k], t) THEN k - 1 ELSE found)

FindLastPlane(table, t) == ScanAllPlanes(table, t, 1, DEFAULT_PLANE_INDEX)

FindPlane(table, t) == ScanPlanes(table, t, 1)

\* recomb starting at full survival
RecombInitOne == One

\* the value recomb has when no branch assigns it
RecombInit == Zero

\* recomb of the DATA branch for the plane found
RecombData(c, t, pixel_plane) ==
    IF pixel_plane # DEFAULT_PLANE_INDEX
    THEN LET z_anode == c.TPC_BORDERS[pixel_plane + 1][3][1]
             drift_distance == FAbs(FSub(t.z, z_anode))
             drift_time == FDiv(drift_distance, c.V_DRIFT)
         IN  FExp(FDiv(drift_time, c.ELECTRON_LIFETIME))
    ELSE RecombInit

\* n_electrons divided by the photon work function
NElectronsByWPh(c, r, dE) == FDiv(FMul(r, dE), c.W_PH)

\* recomb * dE / physics.W_ION
NElectrons(c, r, dE) == FDiv(FMul(r, dE), c.W_ION)

\* (dE/light.W_PH - tracks[itrk]["n_electrons"]) * light.SCINT_PRESCALE
NPhotons(c, dE, n_electrons) ==
    FMul(FSub(FDiv(dE, c.W_PH), n_electrons), c.SCINT_PRESCALE)

\* the stores of the kernel into a segment record
StorePixelPlane(t, v) == [t EXCEPT !.pixel_plane = v]

\* the n_electrons store landing in dE
StoreElectronsInDE(t, v) == [t EXCEPT !.dE = v]

StoreElectrons(t, v) == [t EXCEPT !.n_electrons = v]

StorePhotons(t, v) == [t EXCEPT !.n_photons = v]

(***************************************************************************)
(* State.                                                                  *)
(***************************************************************************)
VARIABLES
    tracks,       \* the array of segment records, written in place
    tracks0,      \* its contents when the kernel was launched
    mode,         \* the mode argument
    cfg,          \* the constants and the plane table
    error_model,  \* how the build treats a division by zero
    pc,           \* per thread: where it is in the kernel
    dEdx,         \* per thread: the local dEdx
    dE,           \* per thread: the local dE
    recomb,       \* per thread: the local recomb
    raised,       \* per thread: the exception it raised, or "none"
    error         \* the exception the launch reports: the first one raised

vars == <<tracks, tracks0, mode, cfg, error_model, pc, dEdx, dE, recomb, raised, error>>

\* the grid covers the array and, rounded up to the block size, one index more
Threads == 0 .. NTracks

Init ==
    /\ tracks \in [1 .. NTracks -> SegmentInputs]
    /\ tracks0 = tracks
    /\ mode \in Modes
    /\ cfg \in Configs
    /\ error_model \in ErrorModels
    /\ pc = [i \in Threads |-> "start"]
    /\ dEdx = [i \in Threads |-> Zero]
    /\ dE = [i \in Threads |-> Zero]
    /\ recomb = [i \in Threads |-> Zero]
    /\ raised = [i \in Threads |-> "none"]
    /\ error = "none"

\* raise: the thread stops; the launch keeps the first exception raised
Raise(i, exc) ==
    /\ pc' = [pc EXCEPT ![i] = "raised"]
    /\ raised' = [raised EXCEPT ![i] = exc]
    /\ error' = IF error = "none" THEN exc ELSE error

\* a thread whose index is outside the array does nothing
OutOfRange(i) ==
    /\ pc[i] = "start"
    /\ ~InRange(i, tracks)
    /\ pc' = [pc EXCEPT ![i] = "done"]
    /\ UNCHANGED <<tracks, tracks0, mode, cfg, error_model, dEdx, dE, recomb, raised, error>>

\* dEdx = tracks[itrk]["dEdx"]; dE = tracks[itrk]["dE"]; recomb = 0
Load(i) ==
    /\ pc[i] = "start"
    /\ InRange(i, tracks)
    /\ dEdx' = [dEdx EXCEPT ![i] = tracks[Slot(i)].dEdx]
    /\ dE' = [dE EXCEPT ![i] = tracks[Slot(i)].dE]
    /\ recomb' = [recomb EXCEPT ![i] = RecombInit]
    /\ pc' = [pc EXCEPT ![i] = "select"]
    /\ UNCHANGED <<tracks, tracks0, mode, cfg, error_model, raised, error>>

\* log(...)/csi divides by zero: an exception under Python's error model
BoxDividesByZero(i) == error_model = "python" /\ Csi(cfg, dEdx[i]) = Zero

Box(i) ==
    /\ pc[i] = "select"
    /\ ModeBranch(mode) = "BOX"
    /\ ~BoxDividesByZero(i)
    /\ recomb' = [recomb EXCEPT ![i] = RecombBox(cfg, dEdx[i])]
    /\ pc' = [pc EXCEPT ![i] = "check"]
    /\ UNCHANGED <<tracks, tracks0, mode, cfg, error_model, dEdx, dE, raised, error>>

BoxZeroDivision(i) ==
    /\ pc[i] = "select"
    /\ ModeBranch(mode) = "BOX"
    /\ BoxDividesByZero(i)
    /\ Raise(i, "ZeroDivisionError")
    /\ UNCHANGED <<tracks, tracks0, mode, cfg, error_model, dEdx, dE, recomb>>

Birks(i) ==
    /\ pc[i] = "select"
    /\ ModeBranch(mode) = "BIRKS"
    /\ recomb' = [recomb EXCEPT ![i] = RecombBirks(cfg, dEdx[i])]
    /\ pc' = [pc EXCEPT ![i] = "check"]
    /\ UNCHANGED <<tracks, tracks0, mode, cfg, error_model, dEdx, dE, raised, error>>

\* the plane search, the store of pixel_plane and the attenuation
Data(i) ==
    /\ pc[i] = "select"
    /\ ModeBranch(mode) = "DATA"
    /\ LET track == tracks[Slot(i)]
           pixel_plane == FindPlane(cfg.TPC_BORDERS, track)
       IN  /\ tracks' = [tracks EXCEPT ![Slot(i)] = StorePixelPlane(track, pixel_plane)]
           /\ recomb' = [recomb EXCEPT ![i] = RecombData(cfg, track, pixel_plane)]
    /\ pc' = [pc EXCEPT ![i] = "check"]
    /\ UNCHANGED <<tracks0, mode, cfg, error_model, dEdx, dE, raised, error>>

\* else: raise ValueError("Invalid recombination mode ...")
InvalidMode(i) ==
    /\ pc[i] = "select"
    /\ ModeBranch(mode) = "INVALID"
    /\ Raise(i, "ValueError")
    /\ UNCHANGED <<tracks, tracks0, mode, cfg, error_model, dEdx, dE, recomb>>

\* if isnan(recomb): raise RuntimeError("Invalid recombination value")
InvalidRecomb(i) ==
    /\ pc[i] = "check"
    /\ isnan(recomb[i])
    /\ Raise(i, "RuntimeError")
    /\ UNCHANGED <<tracks, tracks0, mode, cfg, error_model, dEdx, dE, recomb>>

\* tracks[itrk]["n_electrons"] = recomb * dE / physics.W_ION
WriteElectrons(i) ==
    /\ pc[i] = "check"
    /\ ~isnan(recomb[i])
    /\ tracks' = [tracks EXCEPT ![Slot(i)] =
                     StoreElectrons(@, NElectrons(cfg, recomb[i], dE[i]))]
    /\ pc' = [pc EXCEPT ![i] = "photons"]
    /\ UNCHANGED <<tracks0, mode, cfg, error_model, dEdx, dE, recomb, raised, error>>

\* tracks[itrk]["n_photons"] = (dE/W_PH - tracks[itrk]["n_electrons"]) * SCINT_PRESCALE
WritePhotons(i) ==
    /\ pc[i] = "photons"
    /\ tracks' = [tracks EXCEPT ![Slot(i)] =
                     StorePhotons(@, NPhotons(cfg, dE[i], tracks[Slot(i)].n_electrons))]
    /\ pc' = [pc EXCEPT ![i] = "done"]
    /\ UNCHANGED <<tracks0, mode, cfg, error_model, dEdx, dE, recomb, raised, error>>

Next ==
    \E i \in Threads :
        \/ OutOfRange(i)
        \/ Load(i)
        \/ Box(i)
        \/ BoxZeroDivision(i)
        \/ Birks(i)
        \/ Data(i)
        \/ InvalidMode(i)
        \/ InvalidRecomb(i)
        \/ WriteElectrons(i)
        \/ WritePhotons(i)

Spec == Init /\ [][Next]_vars

(***************************************************************************)
(* Properties.                                                             *)
(***************************************************************************)
\* the elements of the array, and the thread that works on element s
Slots == 1 .. NTracks

ThreadOf(s) == s - 1

Returned(i) == pc[i] = "done"

Finished(i) == pc[i] \in {"done", "raised"}

OutputsUntouched(s) ==
    /\ tracks[s].n_electrons = tracks0[s].n_electrons
    /\ tracks[s].n_photons = tracks0[s].n_photons

\* the padded box of the plane entry, as the documentation describes it: every
\* bound moved outwards by 2e-2, the z range spanning both z values
PaddedBoxContains(plane, t) ==
    LET tol == Fin(1, 50)
        zlo == IF FLt(plane[3][1], plane[3][2]) THEN plane[3][1] ELSE plane[3][2]
        zhi == IF FLt(plane[3][1], plane[3][2]) THEN plane[3][2] ELSE plane[3][1]
    IN  /\ FLe(FSub(plane[1][1], tol), t.x) /\ FLe(t.x, FAdd(plane[1][2], tol))
        /\ FLe(FSub(plane[2][1], tol), t.y) /\ FLe(t.y, FAdd(plane[2][2], tol))
        /\ FLe(FSub(zlo, tol), t.z) /\ FLe(t.z, FAdd(zhi, tol))

\* the table indices (from 0) of the planes whose padded box contains t
Matching(t) ==
    {k \in 0 .. Len(cfg.TPC_BORDERS) - 1 : PaddedBoxContains(cfg.TPC_BORDERS[k + 1], t)}

\* C1: with a mode that is none of BOX, BIRKS and DATA no segment's n_electrons
\* or n_photons is written, and every thread of the array that has finished has
\* raised the invalid-mode error, which is the error of the launch
C1_InvalidModeWritesNothing ==
    mode \notin {BOX, BIRKS, DATA} =>
        \A s \in Slots :
            /\ OutputsUntouched(s)
            /\ ~Returned(ThreadOf(s))
            /\ Finished(ThreadOf(s)) =>
                   raised[ThreadOf(s)] = "ValueError" /\ error = "ValueError"

C1_Witness ==
    /\ mode \notin {BOX, BIRKS, DATA}
    /\ \A s \in Slots : pc[ThreadOf(s)] = "raised" /\ OutputsUntouched(s)
    /\ error = "ValueError"

\* C2: once a fatal condition has been detected no field of any segment is
\* written any more
C2_NoWriteAfterFatal ==
    [][(error \in {"ValueError", "RuntimeError"}) => (tracks' = tracks)]_vars

\* the segment record a sequential evaluation of the kernel body leaves
Quenched(c, m, t) ==
    LET pp == IF m = DATA THEN FindPlane(c.TPC_BORDERS, t) ELSE t.pixel_plane
        r == IF m = BOX THEN RecombBox(c, t.dEdx)
             ELSE IF m = BIRKS THEN RecombBirks(c, t.dEdx)
             ELSE RecombData(c, t, pp)
        ne == NElectrons(c, r, t.dE)
    IN  [t EXCEPT !.pixel_plane = pp, !.n_electrons = ne,
                  !.n_photons = NPhotons(c, t.dE, ne)]

\* C3: when every thread has returned and none has raised, the array holds,
\* whatever the interleaving was, the result of evaluating the segments one
\* after the other
C3_OrderIndependent ==
    ((\A i \in Threads : Finished(i)) /\ error = "none") =>
        tracks = [s \in Slots |-> Quenched(cfg, mode, tracks0[s])]

C3_Witness ==
    /\ \A i \in Threads : Returned(i)
    /\ error = "none"
    /\ tracks0[1] # tracks0[2]
    /\ \A s \in Slots : ~OutputsUntouched(s)

\* C4: a segment whose thread returned holds n_electrons = recomb * dE / W_ION
\* and n_photons = (dE / W_PH - n_electrons) * SCINT_PRESCALE, in every mode,
\* recomb being the value of the branch taken and dE the segment's input
C4_OutputFormulas ==
    \A s \in Slots :
        Returned(ThreadOf(s)) =>
            LET t0 == tracks0[s]
                r == recomb[ThreadOf(s)]
            IN  /\ mode = BOX => r = RecombBox(cfg, t0.dEdx)
                /\ mode = BIRKS => r = RecombBirks(cfg, t0.dEdx)
                /\ (mode = DATA /\ Matching(t0) = {}) => r = Zero
                /\ tracks[s].n_electrons = FDiv(FMul(r, t0.dE), cfg.W_ION)
                /\ tracks[s].n_photons =
                       FMul(FSub(FDiv(t0.dE, cfg.W_PH), tracks[s].n_electrons),
                            cfg.SCINT_PRESCALE)

C4_Witness ==
    /\ mode = DATA
    /\ \E s \in Slots : Returned(ThreadOf(s)) /\ Matching(tracks0[s]) = {}
    /\ \E s \in Slots : /\ Returned(ThreadOf(s))
                        /\ Matching(tracks0[s]) # {}
                        /\ FLt(One, recomb[ThreadOf(s)])
                        /\ FLt(Zero, tracks[s].n_electrons)

\* C5: in DATA mode pixel_plane is the smallest table index whose padded box
\* contains the segment, so of several such planes the earliest is taken
C5_FirstMatchingPlane ==
    \A s \in Slots :
        (mode = DATA /\ pc[ThreadOf(s)] \notin {"start", "select"}
                     /\ Matching(tracks0[s]) # {}) =>
            /\ tracks[s].pixel_plane \in Matching(tracks0[s])
            /\ \A k \in Matching(tracks0[s]) : tracks[s].pixel_plane <= k

C5_Witness ==
    \E s \in Slots :
        /\ mode = DATA
        /\ Returned(ThreadOf(s))
        /\ Cardinality(Matching(tracks0[s])) >= 2
        /\ tracks[s].pixel_plane = 1
        /\ 2 \in Matching(tracks0[s])

\* C6: in DATA mode a segment inside no padded box is evaluated without an
\* error: pixel_plane is DEFAULT_PLANE_INDEX, recomb stays 0, n_electrons = 0
\* and n_photons = (dE / W_PH) * SCINT_PRESCALE
C6_NoPlaneFallThrough ==
    \A s \in Slots :
        (mode = DATA /\ Matching(tracks0[s]) = {}) =>
            /\ raised[ThreadOf(s)] = "none"
            /\ pc[ThreadOf(s)] \notin {"start", "select"} =>
                   /\ tracks[s].pixel_plane = DEFAULT_PLANE_INDEX
                   /\ recomb[ThreadOf(s)] = Zero
            /\ Returned(ThreadOf(s)) =>
                   /\ tracks[s].n_electrons = Zero
                   /\ tracks[s].n_photons =
                          FMul(FDiv(tracks0[s].dE, cfg.W_PH), cfg.SCINT_PRESCALE)

C6_Witness ==
    \E s \in Slots :
        /\ mode = DATA
        /\ Matching(tracks0[s]) = {}
        /\ Returned(ThreadOf(s))
        /\ FLt(Zero, tracks0[s].dE)
        /\ FLt(Zero, tracks[s].n_photons)

\* the thread of element s is past the NaN check, one way or the other
PastCheck(s) == pc[ThreadOf(s)] \in {"photons", "done", "raised"}

\* C7 as stated: a segment whose recomb is NaN, dEdx = 0 under BOX being one,
\* raises the invalid-recombination error and its outputs are not written
C7_ZeroDEdxBoxRaises ==
    \A s \in Slots :
        (PastCheck(s) /\ (recomb[ThreadOf(s)] = NaN
                             \/ (mode = BOX /\ tracks0[s].dEdx = Zero))) =>
            raised[ThreadOf(s)] = "RuntimeError" /\ OutputsUntouched(s)

\* C7, amended: a segment whose recomb is NaN (a NaN dEdx under BIRKS) raises
\* the invalid-recombination error and its outputs are not written; under BOX
\* recomb is never NaN and dEdx = 0 never raises that error
C7_NanRecombRaises ==
    \A s \in Slots :
        /\ (PastCheck(s) /\ recomb[ThreadOf(s)] = NaN) =>
               raised[ThreadOf(s)] = "RuntimeError" /\ OutputsUntouched(s)
        /\ mode = BOX =>
               ~recomb[ThreadOf(s)] = NaN /\ raised[ThreadOf(s)] # "RuntimeError"

C7_Witness ==
    /\ \E s \in Slots : /\ mode = BIRKS
                        /\ tracks0[s].dEdx = NaN
                        /\ raised[ThreadOf(s)] = "RuntimeError"
                        /\ error = "RuntimeError"
                        /\ OutputsUntouched(s)

\* C8: dEdx, dE, x, y and z of every segment are never changed, and neither is
\* pixel_plane unless the mode is DATA
C8_InputsUnchanged ==
    \A s \in Slots :
        /\ tracks[s].dEdx = tracks0[s].dEdx
        /\ tracks[s].dE = tracks0[s].dE
        /\ tracks[s].x = tracks0[s].x
        /\ tracks[s].y = tracks0[s].y
        /\ tracks[s].z = tracks0[s].z
        /\ mode # DATA => tracks[s].pixel_plane = tracks0[s].pixel_plane

C8_Witness ==
    /\ mode \in {BOX, BIRKS}
    /\ \A s \in Slots : Returned(ThreadOf(s)) /\ ~OutputsUntouched(s)
    /\ \E s \in Slots : tracks[s].pixel_plane # DEFAULT_PLANE_INDEX

\* C9: under BIRKS a segment with dEdx >= 0 gets 0 <= recomb <= BIRKS_Ab and
\* raises nothing
C9_BirksBounds ==
    \A s \in Slots :
        (mode = BIRKS /\ FLe(Zero, tracks0[s].dEdx)) =>
            /\ raised[ThreadOf(s)] = "none"
            /\ pc[ThreadOf(s)] \notin {"start", "select"} =>
                   /\ FLe(Zero, recomb[ThreadOf(s)])
                   /\ FLe(recomb[ThreadOf(s)], cfg.BIRKS_Ab)

C9_Witness ==
    \E s \in Slots :
        /\ mode = BIRKS
        /\ FLt(Zero, tracks0[s].dEdx)
        /\ Returned(ThreadOf(s))
        /\ FLt(Zero, recomb[ThreadOf(s)])
        /\ FLt(recomb[ThreadOf(s)], cfg.BIRKS_Ab)

\* csi as the documentation gives it, for the input dEdx of element s
CsiOf(s) ==
    FDiv(FMul(cfg.BOX_BETA, tracks0[s].dEdx), FMul(cfg.E_FIELD, cfg.LAR_DENSITY))

BoxComputed(s) == mode = BOX /\ pc[ThreadOf(s)] \in {"check", "photons", "done"}

\* C10 as stated: under BOX recomb > 0 when csi > 0 and BOX_ALPHA + csi > 1,
\* and recomb = 0 whenever BOX_ALPHA + csi <= 1
C10_BoxFloorAnyCsi ==
    \A s \in Slots :
        BoxComputed(s) =>
            /\ (FLt(Zero, CsiOf(s)) /\ FLt(One, FAdd(cfg.BOX_ALPHA, CsiOf(s)))) =>
                   FLt(Zero, recomb[ThreadOf(s)])
            /\ FLe(FAdd(cfg.BOX_ALPHA, CsiOf(s)), One) =>
                   recomb[ThreadOf(s)] = Zero
            /\ FLe(Zero, recomb[ThreadOf(s)])

\* C10, amended: under BOX recomb > 0 when csi > 0 and BOX_ALPHA + csi > 1,
\* recomb = 0 when csi >= 0 and BOX_ALPHA + csi <= 1, and recomb is never
\* negative
C10_BoxFloor ==
    \A s \in Slots :
        BoxComputed(s) =>
            /\ (FLt(Zero, CsiOf(s)) /\ FLt(One, FAdd(cfg.BOX_ALPHA, CsiOf(s)))) =>
                   FLt(Zero, recomb[ThreadOf(s)])
            /\ (FLe(Zero, CsiOf(s)) /\ FLe(FAdd(cfg.BOX_ALPHA, CsiOf(s)), One)) =>
                   recomb[ThreadOf(s)] = Zero
            /\ FLe(Zero, recomb[ThreadOf(s)])

C10_Witness ==
    /\ \E s \in Slots : /\ BoxComputed(s)
                        /\ FLt(Zero, CsiOf(s))
                        /\ FLt(FAdd(cfg.BOX_ALPHA, CsiOf(s)), One)
                        /\ recomb[ThreadOf(s)] = Zero
    /\ \E s \in Slots : /\ BoxComputed(s)
                        /\ FLt(Zero, CsiOf(s))
                        /\ FLt(Zero, recomb[ThreadOf(s)])

====
